---- MODULE Spec2Model ----
(***************************************************************************)
(* Model of vade-evan: the ledger-backed DID document resolver             *)
(* (src/resolver/mod.rs), the CL issuer with revocation                    *)
(* (src/crypto/crypto_issuer.rs) and the BBS credential verification       *)
(* helper (src/helpers/credential_merge_with_pr33_later_on.rs).            *)
(*                                                                         *)
(* The specifications share the variables:                                 *)
(*   ResolverSpec  one caller, every resolver operation, one at a time     *)
(*   RaceSpec      set_did_document calls interleaved at the ledger awaits *)
(*   IssuerSpec    the issuer's revocation registry operations             *)
(*   VerifySpec    verify_credential on signed and on changed credentials  *)
(*   LookupSpec    the issuer key lookup over verification method lists    *)
(*   DefinitionSpec  create_credential_definition, property by property    *)
(*   OfferSpec     create_credential_offer over every schema answer        *)
(*   DocumentSpec  key lookup and offers over every answer of the resolver *)
(*   RevocationSpec  verify_credential before and after a revocation       *)
(***************************************************************************)
EXTENDS Integers, Sequences, FiniteSets, TLC

\* ---------------------------------------------------------------- bounds
\* number of concurrently running resolver calls
MaxProcs == 2
\* number of distinct DIDs on the ledger
MaxDids == 2
\* number of distinct document values written
MaxValues == 2
\* largest maximum_credential_count a revocation registry is created with
MaxCredentials == 2
\* number of sign_credential_with_revocation calls explored
MaxSigned == 3
\* number of properties of the credential schema
MaxProps == 2
\* number of distinct non-empty credentialSubject.data values
MaxDataValues == 1
\* number of issuer key pairs
MaxKeys == 2
\* longest verification method list of an issuer DID document
MaxMethods == 2
\* number of distinct property names a credential schema draws from
MaxSchemaProps == 3

Procs == 1..MaxProcs
DIDs == 1..MaxDids
Values == 1..MaxValues

\* ------------------------------------------------------- result values
\* Result<T, E> of an operation, plus the panic an unwrap() raises.
NoResult == [tag |-> "None", val |-> 0, err |-> <<>>]
Ok(v) == [tag |-> "Ok", val |-> v, err |-> <<>>]
Err(e) == [tag |-> "Err", val |-> 0, err |-> e]
Panic == [tag |-> "Panic", val |-> 0, err |-> <<>>]

\* the value Ok(()) carries
Unit == 0

VARIABLES
  \* --- ledger (collaborator crate::utils::substrate)
  ledger,        \* DID -> sequence of payloads stored for it
  created,       \* DIDs handed out by create_did
  whitelisted,   \* the configured identity was whitelisted
  \* --- resolver calls in flight
  pc,            \* proc -> position in its call
  call,          \* proc -> [op, did, value, mtype] of its current call
  payload_count, \* proc -> local payload_count of set_did_document
  ret,           \* proc -> result of its last call
  callLog,       \* proc -> ledger calls its current call has made
  ledger_err,    \* proc -> the failure a ledger call answered its current call with
  lastSet        \* DID -> value of the latest successful set_did_document (0: none)

resolverVars ==
  <<ledger, created, whitelisted, pc, call, payload_count, ret, callLog, ledger_err, lastSet>>

VARIABLES
  \* --- issuer (crypto_issuer.rs)
  rev_def,       \* the RevocationRegistryDefinition the issuer holds
  rev_before,    \* rev_def as it was when the latest signing call began
  issuer_ret,    \* operation and outcome of the latest issuer call
  issued,        \* revocation indices of the credentials signed, in order
  deltas,        \* RevocationRegistryDeltas computed by revocations so far
  published      \* the RevocationRegistry update_revocation_registry returned last

VARIABLES
  \* --- issuer: create_credential_definition
  cd_call,                   \* the arguments of the call
  cd_pc,                     \* "idle", "properties", "new_credential_def", "done", "panicked"
  cd_rest,                   \* schema properties the loop has not visited yet
  non_credential_schema,     \* attrs of the finalized non-credential schema
  credential_schema_builder, \* attrs added to the credential schema builder
  cd_ret                     \* the definition returned, or the panic

definitionVars ==
  <<cd_call, cd_pc, cd_rest, non_credential_schema, credential_schema_builder, cd_ret>>

issuerVars ==
  <<rev_def, rev_before, issuer_ret, issued, deltas, published, definitionVars>>

VARIABLES
  \* --- credential verification (credential_merge_with_pr33_later_on.rs)
  did_response,  \* what did_resolve answers for the issuer's DID
  cred,          \* the credential presented to verify_credential
  signed,        \* what the issuer signed: key, master secret, data
  v_call,        \* arguments of the latest verify_credential
  key_ret,       \* result of get_issuer_public_key in the latest call
  is_valid,      \* what Signature::verify answered in the latest call
  v_ret,         \* result of the latest verify_credential
  v_check,       \* what the latest verify_credential checked the signature over
  revoked        \* whether the credential's index is revoked in its registry

VARIABLES
  \* --- credential offers (credential_merge_with_pr33_later_on.rs)
  schema_response, \* what did_resolve answers for the schema's DID
  offer_call,      \* arguments of the latest create_credential_offer
  offer_draft,     \* result of create_empty_unsigned_credential in that call
  offer_canon,     \* how the canonicalization of the draft ended in that call
  signer_calls,    \* payloads handed to vc_zkp_create_credential_offer
  offer_ret        \* result of the latest create_credential_offer

offerVars == <<schema_response, offer_call, offer_draft, offer_canon, signer_calls, offer_ret>>

verifyVars ==
  <<did_response, cred, signed, v_call, key_ret, is_valid, v_ret, v_check, revoked, offerVars>>

vars == <<resolverVars, issuerVars, verifyVars>>

\* ---------------------------------------------------------------- resolver

MessageTypes == {"generateDid", "whitelistIdentity", "generatedid", "setDidDocument", ""}

NoCall == [op |-> "none", did |-> 0, value |-> 0, mtype |-> ""]

\* ledger collaborator: get_payload_count_for_did
get_payload_count_for_did(d) == Len(ledger[d])

\* ledger collaborator: add_payload_to_did appends a payload
add_payload_to_did(l, v, d) == [l EXCEPT ![d] = Append(@, v)]

\* ledger collaborator: update_payload_in_did replaces the payload at a
\* (0-based) index; an index beyond the stored payloads changes nothing
update_payload_in_did(l, i, v, d) ==
  IF i + 1 <= Len(l[d]) THEN [l EXCEPT ![d][i + 1] = v] ELSE l

\* ledger collaborator: get_did answers with the current payload of the DID
get_did(d) == ledger[d][1]

LedgerCall(name, d, i, v) == [fn |-> name, did |-> d, index |-> i, value |-> v]

ResolverInit ==
  /\ ledger = [d \in DIDs |-> <<>>]
  /\ created = {}
  /\ whitelisted = FALSE
  /\ pc = [p \in Procs |-> "idle"]
  /\ call = [p \in Procs |-> NoCall]
  /\ payload_count = [p \in Procs |-> 0]
  /\ ret = [p \in Procs |-> NoResult]
  /\ callLog = [p \in Procs |-> <<>>]
  /\ ledger_err = [p \in Procs |-> "none"]
  /\ lastSet = [d \in DIDs |-> 0]

\* a proc can start a call when its previous one has returned or panicked
Free(p) == pc[p] \in {"idle", "done", "panicked"}

Start(p, c, at) ==
  /\ Free(p)
  /\ pc' = [pc EXCEPT ![p] = at]
  /\ call' = [call EXCEPT ![p] = c]
  /\ ret' = [ret EXCEPT ![p] = NoResult]
  /\ callLog' = [callLog EXCEPT ![p] = <<>>]
  /\ ledger_err' = [ledger_err EXCEPT ![p] = "none"]
  /\ payload_count' = [payload_count EXCEPT ![p] = 0]
  /\ UNCHANGED <<ledger, created, whitelisted, lastSet, issuerVars, verifyVars>>

\* the failure a ledger call of the collaborator answers with
LedgerFailure == "LedgerError"

\* what unwrap() makes of a failed ledger call: the call panics
UnwrapFailure(failure) == Panic

\* the call of p ends at the unwrap() of a failed ledger call
Unwind(p, logged) ==
  /\ pc' = [pc EXCEPT ![p] = "panicked"]
  /\ ret' = [ret EXCEPT ![p] = UnwrapFailure(LedgerFailure)]
  /\ callLog' = [callLog EXCEPT ![p] = Append(@, logged)]
  /\ ledger_err' = [ledger_err EXCEPT ![p] = LedgerFailure]

\* ---- set_did_document: entry
SetDidDocumentBegin(p) ==
  \E d \in DIDs, v \in Values :
    Start(p, [op |-> "set_did_document", did |-> d, value |-> v, mtype |-> ""], "set_count")

\* ---- set_did_document: get_payload_count_for_did(..).await.unwrap()
SetDidDocumentCount(p) ==
  /\ pc[p] = "set_count"
  /\ LET d == call[p].did
         logged == LedgerCall("get_payload_count_for_did", d, 0, 0)
     IN \/ /\ pc' = [pc EXCEPT ![p] = "set_write"]
           /\ payload_count' = [payload_count EXCEPT ![p] = get_payload_count_for_did(d)]
           /\ callLog' = [callLog EXCEPT ![p] = Append(@, logged)]
           /\ UNCHANGED <<ret, ledger_err>>
        \/ /\ Unwind(p, logged)
           /\ UNCHANGED payload_count
  /\ UNCHANGED <<ledger, created, whitelisted, call, lastSet, issuerVars, verifyVars>>

\* the ledger write set_did_document chooses from the count it read
SetWriteCallInverted(count, d, v) ==
  IF count > 0
    THEN LedgerCall("add_payload_to_did", d, 0, v)
    ELSE LedgerCall("update_payload_in_did", d, 0, v)

SetWriteCallAppend(count, d, v) == LedgerCall("add_payload_to_did", d, 0, v)

SetWriteCall(count, d, v) ==
  IF count > 0
    THEN LedgerCall("update_payload_in_did", d, 0, v)
    ELSE LedgerCall("add_payload_to_did", d, 0, v)

\* the effect of that write on the ledger
ApplyWrite(l, w) ==
  IF w.fn = "update_payload_in_did"
    THEN update_payload_in_did(l, w.index, w.value, w.did)
    ELSE add_payload_to_did(l, w.value, w.did)

\* ---- set_did_document: the write, then Ok(())
SetDidDocumentWrite(p) ==
  /\ pc[p] = "set_write"
  /\ LET d == call[p].did
         v == call[p].value
         w == SetWriteCall(payload_count[p], d, v)
     IN \/ /\ ledger' = ApplyWrite(ledger, w)
           /\ lastSet' = [lastSet EXCEPT ![d] = v]
           /\ pc' = [pc EXCEPT ![p] = "done"]
           /\ ret' = [ret EXCEPT ![p] = Ok(Unit)]
           /\ callLog' = [callLog EXCEPT ![p] = Append(@, w)]
           /\ UNCHANGED ledger_err
        \/ /\ Unwind(p, w)
           /\ UNCHANGED <<ledger, lastSet>>
  /\ UNCHANGED <<created, whitelisted, call, payload_count, issuerVars, verifyVars>>

\* ---- check_did: unimplemented!()
CheckDid(p) ==
  /\ Free(p)
  /\ \E d \in DIDs, v \in Values :
       call' = [call EXCEPT ![p] = [op |-> "check_did", did |-> d, value |-> v, mtype |-> ""]]
  /\ pc' = [pc EXCEPT ![p] = "panicked"]
  /\ ret' = [ret EXCEPT ![p] = Panic]
  /\ callLog' = [callLog EXCEPT ![p] = <<>>]
  /\ ledger_err' = [ledger_err EXCEPT ![p] = "none"]
  /\ payload_count' = [payload_count EXCEPT ![p] = 0]
  /\ UNCHANGED <<ledger, created, whitelisted, lastSet, issuerVars, verifyVars>>

\* ---- get_did_document: entry
GetDidDocumentBegin(p) ==
  \E d \in DIDs :
    Start(p, [op |-> "get_did_document", did |-> d, value |-> 0, mtype |-> ""], "get_call")

\* ---- get_did_document: Ok(get_did(..).await.unwrap())
GetDidDocument(p) ==
  /\ pc[p] = "get_call"
  /\ LET d == call[p].did
         logged == LedgerCall("get_did", d, 0, 0)
     IN \/ /\ Len(ledger[d]) > 0
           /\ pc' = [pc EXCEPT ![p] = "done"]
           /\ ret' = [ret EXCEPT ![p] = Ok(get_did(d))]
           /\ callLog' = [callLog EXCEPT ![p] = Append(@, logged)]
           /\ UNCHANGED ledger_err
        \/ Unwind(p, logged)
  /\ UNCHANGED <<ledger, created, whitelisted, call, payload_count, lastSet, issuerVars, verifyVars>>

\* the error of the wildcard arm of handle_message:
\* format!("message type '{}' not implemented", message_type)
NotImplemented(mt) == Err(<<"message type '", mt, "' not implemented">>)

\* the arm of handle_message's match that a message_type selects
MatchArmIgnoreCase(mt) ==
  CASE mt \in {"generateDid", "generatedid"} -> "generate_did"
    [] mt = "whitelistIdentity" -> "whitelist_identity"
    [] OTHER -> "not_implemented"

MatchArm(mt) ==
  CASE mt = "generateDid" -> "generate_did"
    [] mt = "whitelistIdentity" -> "whitelist_identity"
    [] OTHER -> "not_implemented"

\* ---- handle_message: the match on message_type
HandleMessage(p) ==
  \E mt \in MessageTypes :
    LET c == [op |-> "handle_message", did |-> 0, value |-> 0, mtype |-> mt]
        arm == MatchArm(mt)
    IN IF arm = "not_implemented"
         THEN /\ Free(p)
              /\ pc' = [pc EXCEPT ![p] = "done"]
              /\ call' = [call EXCEPT ![p] = c]
              /\ ret' = [ret EXCEPT ![p] = NotImplemented(mt)]
              /\ callLog' = [callLog EXCEPT ![p] = <<>>]
              /\ ledger_err' = [ledger_err EXCEPT ![p] = "none"]
              /\ payload_count' = [payload_count EXCEPT ![p] = 0]
              /\ UNCHANGED <<ledger, created, whitelisted, lastSet, issuerVars, verifyVars>>
         ELSE Start(p, c, arm)

\* ---- generate_did: Ok(Some(create_did(..).await.unwrap()))
GenerateDid(p) ==
  /\ pc[p] = "generate_did"
  /\ LET logged == LedgerCall("create_did", 0, 0, 0)
     IN \/ \E d \in DIDs \ created :
             /\ created' = created \cup {d}
             /\ pc' = [pc EXCEPT ![p] = "done"]
             /\ ret' = [ret EXCEPT ![p] = Ok(d)]
             /\ callLog' = [callLog EXCEPT ![p] = Append(@, logged)]
             /\ UNCHANGED ledger_err
        \/ /\ Unwind(p, logged)
           /\ UNCHANGED created
  /\ UNCHANGED <<ledger, whitelisted, call, payload_count, lastSet, issuerVars, verifyVars>>

\* ---- whitelist_identity: Ok(Some(whitelist_identity(..).await.unwrap()))
WhitelistIdentity(p) ==
  /\ pc[p] = "whitelist_identity"
  /\ LET logged == LedgerCall("whitelist_identity", 0, 0, 0)
     IN \/ /\ whitelisted' = TRUE
           /\ pc' = [pc EXCEPT ![p] = "done"]
           /\ ret' = [ret EXCEPT ![p] = Ok(Unit)]
           /\ callLog' = [callLog EXCEPT ![p] = Append(@, logged)]
           /\ UNCHANGED ledger_err
        \/ /\ Unwind(p, logged)
           /\ UNCHANGED whitelisted
  /\ UNCHANGED <<ledger, created, call, payload_count, lastSet, issuerVars, verifyVars>>

\* ------------------------------------------------------------------ issuer

\* credential_revocation_id values a caller passes (u32; ursa numbers the
\* indices of a registry 1..maximum_credential_count)
RevocationIds == 0..(MaxCredentials + 2)

Range(seq) == {seq[i] : i \in DOMAIN seq}

NoRevDef ==
  [exists |-> FALSE,
   registry |-> [accum |-> {}],
   registry_delta |-> "None",
   tails |-> [size |-> 0, current_index |-> 0],
   maximum_credential_count |-> 0]

NoIssuerCall == [op |-> "none", tag |-> "None", index |-> 0]

\* attribute names: "master_secret" and the other property names
MasterSecretAttr == 0
SchemaPropNames == 0..MaxSchemaProps

\* CredentialSchema values: properties is a map keyed by property name
CredentialSchemas == [properties : SUBSET SchemaPropNames]

NoDefinitionCall == [properties |-> {}, include_master_secret |-> FALSE]
NoDefinition == [tag |-> "None", attrs |-> {}]

DefinitionIdle ==
  /\ cd_call = NoDefinitionCall
  /\ cd_pc = "idle"
  /\ cd_rest = {}
  /\ non_credential_schema = {}
  /\ credential_schema_builder = {}
  /\ cd_ret = NoDefinition

IssuerInit ==
  /\ rev_def = NoRevDef
  /\ rev_before = NoRevDef
  /\ issuer_ret = NoIssuerCall
  /\ issued = <<>>
  /\ deltas = {}
  /\ published = [accum |-> {}]
  /\ DefinitionIdle

\* ursa new_revocation_registry_def(key, max, issuance_by_default = true):
\* every index starts inside the accumulator, the tails generator is
\* unconsumed
new_revocation_registry_def(max) ==
  [registry |-> [accum |-> 1..max],
   tails |-> [size |-> 2 * max + 1, current_index |-> 0]]

\* ---- create_revocation_registry
CreateRevocationRegistry ==
  /\ ~rev_def.exists
  /\ \E max \in 1..MaxCredentials :
       LET made == new_revocation_registry_def(max)
       IN /\ rev_def' = [exists |-> TRUE,
                         registry |-> made.registry,
                         registry_delta |-> "None",
                         tails |-> made.tails,
                         maximum_credential_count |-> max]
          /\ published' = made.registry
  /\ issuer_ret' = [op |-> "create_revocation_registry", tag |-> "Ok", index |-> 0]
  /\ UNCHANGED <<rev_before, issued, deltas, definitionVars, resolverVars, verifyVars>>

\* SimpleTailsAccessor::new(&mut tails) reads the generator to its end
TailsRead(tails) == [tails EXCEPT !.current_index = tails.size]

\* the steps of sign_credential_with_revocation at which an unwrap() can
\* panic, and its regular return
SignOutcomes == {"nonce_panic", "tails_panic", "sign_panic", "ok"}

\* the definition as sign_credential_with_revocation leaves it: the tails
\* generator is handed out mutably before the signing step runs; with
\* issuance_by_default = true the signing step leaves the accumulator alone
RevDefAfterSign(def, outcome, stop) ==
  CASE outcome = "nonce_panic" -> def
    [] outcome = "tails_panic" -> [def EXCEPT !.tails.current_index = stop]
    [] OTHER -> [def EXCEPT !.tails = TailsRead(def.tails)]

\* ---- sign_credential_with_revocation
SignCredentialWithRevocation ==
  /\ rev_def.exists
  /\ Len(issued) < MaxSigned
  /\ \E credential_revocation_id \in RevocationIds, outcome \in SignOutcomes,
        stop \in rev_def.tails.current_index..rev_def.tails.size :
       /\ outcome = "tails_panic" => stop < rev_def.tails.size
       /\ outcome # "tails_panic" => stop = rev_def.tails.size
       /\ rev_before' = rev_def
       /\ rev_def' = RevDefAfterSign(rev_def, outcome, stop)
       /\ issued' = IF outcome = "ok" THEN Append(issued, credential_revocation_id) ELSE issued
       /\ issuer_ret' = [op |-> "sign_credential_with_revocation",
                         tag |-> IF outcome = "ok" THEN "Ok" ELSE "Panic",
                         index |-> credential_revocation_id]
  /\ UNCHANGED <<deltas, published, definitionVars, resolverVars, verifyVars>>

\* ---- a revocation (ursa revoke_credential on the definition's registry):
\* takes the index out of the accumulator and yields the delta
RevokeCredential ==
  /\ rev_def.exists
  /\ \E i \in rev_def.registry.accum :
       LET delta == [prev_accum |-> rev_def.registry.accum,
                     accum |-> rev_def.registry.accum \ {i},
                     issued |-> {},
                     revoked |-> {i}]
       IN /\ rev_def' = [rev_def EXCEPT !.registry = [accum |-> delta.accum]]
          /\ deltas' = deltas \cup {delta}
          /\ issuer_ret' = [op |-> "revoke_credential", tag |-> "Ok", index |-> i]
  /\ UNCHANGED <<rev_before, issued, published, definitionVars, resolverVars, verifyVars>>

\* RevocationRegistry::from(delta)
RegistryFromDelta(delta) == [accum |-> delta.accum]

\* ---- update_revocation_registry
UpdateRevocationRegistry ==
  /\ \E delta \in deltas :
       /\ published' = RegistryFromDelta(delta)
       /\ issuer_ret' = [op |-> "update_revocation_registry", tag |-> "Ok", index |-> 0]
  /\ UNCHANGED <<rev_def, rev_before, issued, deltas, definitionVars, resolverVars, verifyVars>>

\* ---- create_credential_definition
\* the non-credential schema: "master_secret" when asked for, else nothing
NonCredentialSchemaAlways(include_master_secret) == {MasterSecretAttr}

NonCredentialSchema(include_master_secret) ==
  IF include_master_secret THEN {MasterSecretAttr} ELSE {}

\* builder.add_attr(name): the builder keeps a set of attribute names
add_attr(builder, name) == builder \cup {name}

\* ursa new_credential_def: rejects an empty credential schema, else the
\* keys carry one entry per attribute of both schemas
new_credential_def(crypto_schema, non_schema) ==
  IF crypto_schema = {}
    THEN [tag |-> "Panic", attrs |-> {}]
    ELSE [tag |-> "Ok", attrs |-> crypto_schema \cup non_schema]

CreateCredentialDefinitionBegin ==
  /\ cd_pc = "idle"
  /\ \E credential_schema \in CredentialSchemas, include_master_secret \in BOOLEAN :
       /\ cd_call' = [properties |-> credential_schema.properties,
                      include_master_secret |-> include_master_secret]
       /\ non_credential_schema' = NonCredentialSchema(include_master_secret)
       /\ cd_rest' = credential_schema.properties
  /\ credential_schema_builder' = {}
  /\ cd_pc' = "properties"
  /\ UNCHANGED <<cd_ret, rev_def, rev_before, issuer_ret, issued, deltas, published,
                 resolverVars, verifyVars>>

\* one pass of `for property in &credential_schema.properties`, in map order
CreateCredentialDefinitionProperty ==
  /\ cd_pc = "properties"
  /\ \/ \E property \in cd_rest :
          /\ credential_schema_builder' = add_attr(credential_schema_builder, property)
          /\ cd_rest' = cd_rest \ {property}
          /\ UNCHANGED cd_pc
     \/ /\ cd_rest = {}
        /\ cd_pc' = "new_credential_def"
        /\ UNCHANGED <<credential_schema_builder, cd_rest>>
  /\ UNCHANGED <<cd_call, non_credential_schema, cd_ret, rev_def, rev_before, issuer_ret,
                 issued, deltas, published, resolverVars, verifyVars>>

\* new_credential_def(..).unwrap() and the return of the definition
CreateCredentialDefinitionReturn ==
  /\ cd_pc = "new_credential_def"
  /\ cd_ret' = new_credential_def(credential_schema_builder, non_credential_schema)
  /\ cd_pc' = IF cd_ret'.tag = "Ok" THEN "done" ELSE "panicked"
  /\ UNCHANGED <<cd_call, cd_rest, non_credential_schema, credential_schema_builder,
                 rev_def, rev_before, issuer_ret, issued, deltas, published,
                 resolverVars, verifyVars>>

DefinitionNext ==
  \/ CreateCredentialDefinitionBegin
  \/ CreateCredentialDefinitionProperty
  \/ CreateCredentialDefinitionReturn

IssuerNext ==
  \/ CreateRevocationRegistry
  \/ SignCredentialWithRevocation
  \/ RevokeCredential
  \/ UpdateRevocationRegistry

\* ----------------------------------------------------------- verification

\* Master secret is always incorporated (line 28)
ADDITIONAL_HIDDEN_MESSAGES_COUNT == 1

Props == 1..MaxProps
\* credentialSubject.data values; 0 is the empty string
DataValues == 0..MaxDataValues
\* key pairs: the public key of pair k is written k; 0 is the empty string
Keys == 1..MaxKeys
MasterSecrets == {1, 2}
\* verification method ids, as "#bbs-key-1" and "#random-id" of the tests
MethodIds == {1, 2}
IssuerDid == 1

Methods == [id : MethodIds, x : 0..MaxKeys]
MethodLists == UNION {[1..n -> Methods] : n \in 0..MaxMethods}

\* the error kind a serde_json::Error is converted to by `?`
FromSerdeJsonError == "InvalidDidDocument"

\* what did_resolve(issuer) answers
Responses ==
  {[kind |-> "ok", methods |-> m] : m \in MethodLists}
    \cup {[kind |-> k, methods |-> <<>>] :
            k \in {"resolve_error", "malformed", "no_did_document", "bad_did_document",
                   "no_verification_method"}}

\* a BBS+ signature: verifies exactly under the key and the message list
\* it was made with
Sign(k, msgs) == [key |-> k, msgs |-> msgs]
NoSignature == [key |-> 0, msgs |-> <<>>]

NoCredential ==
  [exists |-> FALSE, issuer |-> IssuerDid, data |-> [p \in Props |-> 0],
   proof |-> [signature |-> NoSignature]]
NoSigned == [key |-> 0, master_secret |-> 0, data |-> [p \in Props |-> 0]]
NoVerifyCall == [verification_method_id |-> 0, master_secret |-> 0]
NoCheck == [messages |-> <<>>, message_count |-> 0, revoked |-> FALSE]

\* what did_resolve(schema_did) answers: the schema document with its
\* properties and the required ones among them, or a failure of a kind
SchemaResponses ==
  UNION {{[kind |-> "ok", properties |-> P, required |-> R] : R \in SUBSET P} :
           P \in SUBSET SchemaPropNames}
    \cup {[kind |-> k, properties |-> {}, required |-> {}] :
            k \in {"resolve_error", "malformed", "no_did_document", "bad_schema"}}

\* Option<&str> subject_did: 0 is None
SubjectDids == 0..MaxDids

NoOfferCall == [use_valid_until |-> FALSE, issuer_did |-> 0, subject_did |-> 0]
EmptyDraft == [valid_until |-> FALSE, subject_id |-> 0, data |-> <<>>]
NoDraft == [tag |-> "None", err |-> <<>>, credential |-> EmptyDraft]

\* no offer has been asked for yet
OfferNone ==
  /\ offer_call = NoOfferCall
  /\ offer_draft = NoDraft
  /\ offer_canon = "none"
  /\ signer_calls = <<>>
  /\ offer_ret = NoResult

\* the specifications without offers never resolve a schema
OfferIdle ==
  /\ schema_response = [kind |-> "resolve_error", properties |-> {}, required |-> {}]
  /\ OfferNone

\* the schema's DID document is whatever the resolver answers
OfferInit == schema_response \in SchemaResponses /\ OfferNone

\* no credential has been presented yet
NoneVerified ==
  /\ cred = NoCredential
  /\ signed = NoSigned
  /\ v_call = NoVerifyCall
  /\ key_ret = NoResult
  /\ is_valid = "none"
  /\ v_ret = NoResult
  /\ v_check = NoCheck
  /\ revoked = FALSE

\* answers with at most one verification method; the lookup among
\* several methods is explored by LookupSpec
ShortResponses == {r \in Responses : Len(r.methods) <= 1}

\* the issuer's DID document is whatever the resolver answers
VerifyInit == did_response \in ShortResponses /\ NoneVerified /\ OfferIdle

\* the resolver and issuer specifications never resolve an issuer
VerifyIdle ==
  did_response = [kind |-> "resolve_error", methods |-> <<>>] /\ NoneVerified /\ OfferIdle

\* offers are created while no credential is presented
OfferSpecIdle == did_response = [kind |-> "resolve_error", methods |-> <<>>] /\ NoneVerified

\* convert_to_nquads on the credential without its proof: the statement of
\* the issuer, then one statement per data property, in canonical order
convert_to_nquads(c) ==
  [i \in 1..(MaxProps + 1) |->
     IF i = 1 THEN <<0, c.issuer>> ELSE <<i - 1, c.data[i - 1]>>]

\* SignatureMessage::hash(nquad)
HashMessage(nquad) == <<1>> \o nquad
\* SignatureMessage::from(base64::decode(master_secret))
SecretMessage(master_secret) == <<0, master_secret>>

\* Vec::insert(index, element), index counted from 0
Insert(vec, index, element) ==
  SubSeq(vec, 1, index) \o <<element>> \o SubSeq(vec, index + 1, Len(vec))

\* the loop of verify_proof_signature: insert(i, hash(message)); i += 1
RECURSIVE InsertHashesFromZero(_, _, _)
InsertHashesFromZero(signature_messages, did_doc_nquads, i) ==
  IF i > Len(did_doc_nquads)
    THEN signature_messages
    ELSE InsertHashesFromZero(Insert(signature_messages, i - 1, HashMessage(did_doc_nquads[i])),
                              did_doc_nquads, i + 1)

RECURSIVE InsertHashes(_, _, _)
InsertHashes(signature_messages, did_doc_nquads, i) ==
  IF i > Len(did_doc_nquads)
    THEN signature_messages
    ELSE InsertHashes(Insert(signature_messages, i, HashMessage(did_doc_nquads[i])),
                      did_doc_nquads, i + 1)

\* the message list verify_proof_signature checks the signature over
SignatureMessages(master_secret, did_doc_nquads) ==
  InsertHashes(Insert(<<>>, 0, SecretMessage(master_secret)), did_doc_nquads, 1)

\* the loop of get_issuer_public_key over the verification methods: the
\* public key of the first method with the id, "" when there is none
RECURSIVE ScanMethodsNoBreak(_, _, _, _)
ScanMethodsNoBreak(verification_methods, verification_method_id, i, public_key) ==
  IF i > Len(verification_methods)
    THEN public_key
    ELSE ScanMethodsNoBreak(verification_methods, verification_method_id, i + 1,
           IF verification_methods[i].id = verification_method_id
             THEN verification_methods[i].x ELSE public_key)

RECURSIVE ScanMethods(_, _, _, _)
ScanMethods(verification_methods, verification_method_id, i, public_key) ==
  IF i > Len(verification_methods)
    THEN public_key
    ELSE IF verification_methods[i].id = verification_method_id
           THEN verification_methods[i].x
           ELSE ScanMethods(verification_methods, verification_method_id, i + 1, public_key)

\* get_issuer_public_key: the failures of the resolver and of the parsing
\* of its answer come first, then the scan of the verification methods
get_issuer_public_key_scan_always(response, verification_method_id) ==
  CASE response.kind = "resolve_error" -> Err(<<"DidResolveError">>)
    [] OTHER ->
         LET public_key == ScanMethods(response.methods, verification_method_id, 1, 0)
         IN IF public_key = 0
              THEN Err(<<"InvalidVerificationMethod">>)
              ELSE Ok(public_key)

get_issuer_public_key(response, verification_method_id) ==
  CASE response.kind = "resolve_error" -> Err(<<"DidResolveError">>)
    [] response.kind = "malformed" -> Err(<<FromSerdeJsonError>>)
    [] response.kind = "no_did_document" -> Err(<<"InvalidDidDocument">>)
    [] response.kind = "bad_did_document" -> Err(<<FromSerdeJsonError>>)
    [] response.kind = "no_verification_method" -> Err(<<"InvalidVerificationMethod">>)
    [] OTHER ->
         LET public_key == ScanMethods(response.methods, verification_method_id, 1, 0)
         IN IF public_key = 0
              THEN Err(<<"InvalidVerificationMethod">>)
              ELSE Ok(public_key)

\* get_public_key_generator: the key expanded to message_count generators
get_public_key_generator(public_key, message_count) ==
  [key |-> public_key, message_count |-> message_count]

\* bbs Signature::verify: an error when the message count differs from the
\* generator's, otherwise whether the signature is valid
SignatureVerify(signature, signature_messages, pk) ==
  IF Len(signature_messages) # pk.message_count
    THEN "error"
    ELSE IF signature.key = pk.key /\ signature.msgs = signature_messages
           THEN "true"
           ELSE "false"

\* verify_proof_signature: only an error of the check is returned; the
\* boolean it answers goes to dbg! and is dropped
verify_proof_signature(checked) ==
  IF checked = "error" THEN Err(<<"BbsValidationError">>) ELSE Ok(Unit)

\* what follows a verified proof in verify_credential: the revocation
\* state is not consulted ("TODO: check if credential has not been
\* revoked?"), the call answers Ok(())
AfterProofVerifiedChecked(is_revoked) ==
  IF is_revoked THEN Err(<<"CredentialRevoked">>) ELSE Ok(Unit)

AfterProofVerified(is_revoked) == Ok(Unit)

\* ---- the issuer's BBS signer signs the credential that is then presented
\* (as EXAMPLE_CREDENTIAL)
IssueCredential ==
  /\ ~cred.exists
  /\ \E k \in Keys, ms \in MasterSecrets, data \in [Props -> DataValues] :
       LET draft == [exists |-> TRUE, issuer |-> IssuerDid, data |-> data,
                     proof |-> [signature |-> NoSignature]]
           msgs == SignatureMessages(ms, convert_to_nquads(draft))
       IN /\ cred' = [draft EXCEPT !.proof.signature = Sign(k, msgs)]
          /\ signed' = [key |-> k, master_secret |-> ms, data |-> data]
  /\ v_call' = NoVerifyCall
  /\ key_ret' = NoResult
  /\ is_valid' = "none"
  /\ v_ret' = NoResult
  /\ v_check' = NoCheck
  /\ UNCHANGED <<did_response, revoked, offerVars, resolverVars, issuerVars>>

\* ---- a credentialSubject.data value is changed after signing
TamperData ==
  /\ cred.exists
  /\ \E p \in Props, v \in DataValues :
       /\ v # cred.data[p]
       /\ cred' = [cred EXCEPT !.data[p] = v]
  /\ v_call' = NoVerifyCall
  /\ key_ret' = NoResult
  /\ is_valid' = "none"
  /\ v_ret' = NoResult
  /\ v_check' = NoCheck
  /\ UNCHANGED <<did_response, signed, revoked, offerVars, resolverVars, issuerVars>>

\* ---- verify_credential
VerifyCredential ==
  /\ cred.exists
  /\ \E verification_method_id \in MethodIds, master_secret \in MasterSecrets :
       LET did_doc_nquads == convert_to_nquads(cred)
           issuer_pub_key == get_issuer_public_key(did_response, verification_method_id)
           public_key_generator ==
             get_public_key_generator(issuer_pub_key.val,
                                      Len(did_doc_nquads) + ADDITIONAL_HIDDEN_MESSAGES_COUNT)
           checked == SignatureVerify(cred.proof.signature,
                                      SignatureMessages(master_secret, did_doc_nquads),
                                      public_key_generator)
           signature_messages == SignatureMessages(master_secret, did_doc_nquads)
           proof_verified == verify_proof_signature(checked)
       IN /\ v_call' = [verification_method_id |-> verification_method_id,
                        master_secret |-> master_secret]
          /\ key_ret' = issuer_pub_key
          /\ IF issuer_pub_key.tag = "Err"
               THEN /\ is_valid' = "none"
                    /\ v_check' = NoCheck
                    /\ v_ret' = issuer_pub_key
               ELSE /\ is_valid' = checked
                    /\ v_check' = [messages |-> signature_messages,
                                   message_count |-> public_key_generator.message_count,
                                   revoked |-> revoked]
                    /\ v_ret' = IF proof_verified.tag = "Err"
                                  THEN proof_verified
                                  ELSE AfterProofVerified(revoked)
  /\ UNCHANGED <<did_response, cred, signed, revoked, offerVars, resolverVars, issuerVars>>

\* ---- the credential's index is revoked in its revocation registry
RevokeCredentialIndex ==
  /\ cred.exists
  /\ ~revoked
  /\ revoked' = TRUE
  /\ UNCHANGED <<did_response, cred, signed, v_call, key_ret, is_valid, v_ret, v_check,
                 offerVars, resolverVars, issuerVars>>

\* ---- get_issuer_public_key called on its own, as the tests do
GetIssuerPublicKey ==
  /\ \E verification_method_id \in MethodIds :
       /\ v_call' = [verification_method_id |-> verification_method_id,
                     master_secret |-> 0]
       /\ key_ret' = get_issuer_public_key(did_response, verification_method_id)
  /\ is_valid' = "none"
  /\ v_ret' = NoResult
  /\ v_check' = NoCheck
  /\ UNCHANGED <<did_response, cred, signed, revoked, offerVars, resolverVars, issuerVars>>

\* a signed credential as EXAMPLE_CREDENTIAL of the tests: key pair 1,
\* master secret 1, every data value 1
ExampleSigned == [key |-> 1, master_secret |-> 1, data |-> [p \in Props |-> 1]]
ExampleCredential ==
  LET draft == [exists |-> TRUE, issuer |-> IssuerDid, data |-> ExampleSigned.data,
                proof |-> [signature |-> NoSignature]]
  IN [draft EXCEPT !.proof.signature =
        Sign(ExampleSigned.key,
             SignatureMessages(ExampleSigned.master_secret, convert_to_nquads(draft)))]

\* the example credential against any answer of the resolver
LookupInit ==
  /\ did_response \in Responses
  /\ cred = ExampleCredential
  /\ signed = ExampleSigned
  /\ v_call = NoVerifyCall
  /\ key_ret = NoResult
  /\ is_valid = "none"
  /\ v_ret = NoResult
  /\ v_check = NoCheck
  /\ revoked = FALSE
  /\ OfferIdle

LookupNext ==
  \/ GetIssuerPublicKey
  \/ VerifyCredential

\* ------------------------------------------------------- credential offers

DraftOk(credential) == [tag |-> "Ok", err |-> <<>>, credential |-> credential]
DraftErr(e) == [tag |-> "Err", err |-> e, credential |-> EmptyDraft]

\* create_empty_unsigned_credential: every schema property, mandatory or
\* optional, becomes a data entry with the empty string (0)
create_empty_unsigned_credential_required(response, subject_did, use_valid_until) ==
  CASE response.kind = "malformed" -> DraftErr(<<FromSerdeJsonError>>)
    [] response.kind = "no_did_document" -> DraftErr(<<"InvalidDidDocument">>)
    [] response.kind = "bad_schema" -> DraftErr(<<FromSerdeJsonError>>)
    [] response.kind = "ok" ->
         DraftOk([valid_until |-> use_valid_until,
                  subject_id |-> subject_did,
                  data |-> [name \in response.required |-> 0]])

create_empty_unsigned_credential(response, subject_did, use_valid_until) ==
  CASE response.kind = "malformed" -> DraftErr(<<FromSerdeJsonError>>)
    [] response.kind = "no_did_document" -> DraftErr(<<"InvalidDidDocument">>)
    [] response.kind = "bad_schema" -> DraftErr(<<FromSerdeJsonError>>)
    [] response.kind = "ok" ->
         DraftOk([valid_until |-> use_valid_until,
                  subject_id |-> subject_did,
                  data |-> [name \in response.properties |-> 0]])

\* the elements of a set of numbers in ascending order
RECURSIVE Ascending(_)
Ascending(S) ==
  IF S = {} THEN <<>>
  ELSE LET least == CHOOSE x \in S : \A y \in S : x <= y
       IN <<least>> \o Ascending(S \ {least})

\* the statements of the canonicalized draft, <<field, key, value>>: the
\* fixed fields (1 type, 2 issuer, 3 issuanceDate, 4 credentialSchema,
\* 5 credentialStatus, 6 credentialSubject), validUntil (7) when present,
\* and one statement per data entry (8)
DraftStatements(credential) ==
  LET names == Ascending(DOMAIN credential.data)
  IN [f \in 1..5 |-> <<f, 0, 0>>]
       \o <<(<<6, 0, credential.subject_id>>)>>
       \o (IF credential.valid_until THEN <<(<<7, 0, 0>>)>> ELSE <<>>)
       \o [i \in 1..Len(names) |-> <<8, names[i], credential.data[names[i]]>>]

\* to_nquads(): every statement is a line ended by "\n", so that
\* split("\n") yields the statements and a last empty line
SplitLines(statements) == statements \o << <<>> >>

RECURSIVE NonEmptyLines(_)
NonEmptyLines(lines) ==
  IF lines = <<>> THEN <<>>
  ELSE IF Len(Head(lines)) = 0
         THEN NonEmptyLines(Tail(lines))
         ELSE <<Head(lines)>> \o NonEmptyLines(Tail(lines))

NquadsOk(nquads) == [tag |-> "Ok", err |-> <<>>, nquads |-> nquads]
NquadsErr(e) == [tag |-> "Err", err |-> e, nquads |-> <<>>]
NquadsPanic == [tag |-> "Panic", err |-> <<>>, nquads |-> <<>>]

\* how the JSON-LD library can end: json_to_dataset fails, normalize
\* fails, to_nquads fails, or all three succeed
CanonOutcomes == {"ok", "json_to_dataset_error", "normalize_error", "to_nquads_error"}

\* convert_to_nquads on the draft, with the outcome of the library calls
ConvertDraftToNquads(credential, outcome) ==
  CASE outcome = "json_to_dataset_error" -> NquadsErr(<<"JsonLdHandling">>)
    [] outcome = "normalize_error" -> NquadsPanic
    [] outcome = "to_nquads_error" -> NquadsPanic
    [] outcome = "ok" -> NquadsOk(NonEmptyLines(SplitLines(DraftStatements(credential))))

OfferCredentialPayload(issuer_did, subject_did, nquads) ==
  [issuer |-> issuer_did, subject |-> subject_did, nquad_count |-> Len(nquads)]

\* ---- create_credential_offer
CreateCredentialOffer ==
  /\ offer_ret = NoResult
  /\ \E use_valid_until \in BOOLEAN, issuer_did \in DIDs, subject_did \in SubjectDids,
        outcome \in CanonOutcomes, signer_ok \in BOOLEAN :
       LET credential_draft ==
             create_empty_unsigned_credential(schema_response, subject_did, use_valid_until)
           nquads == ConvertDraftToNquads(credential_draft.credential, outcome)
           payload == OfferCredentialPayload(issuer_did, subject_did, nquads.nquads)
       IN /\ offer_call' = [use_valid_until |-> use_valid_until,
                            issuer_did |-> issuer_did, subject_did |-> subject_did]
          /\ IF schema_response.kind = "resolve_error"
               THEN /\ offer_ret' = Err(<<"DidResolveError">>)
                    /\ UNCHANGED <<offer_draft, offer_canon, signer_calls>>
               ELSE /\ offer_draft' = credential_draft
                    /\ IF credential_draft.tag = "Err"
                         THEN /\ offer_ret' = Err(credential_draft.err)
                              /\ UNCHANGED <<offer_canon, signer_calls>>
                         ELSE /\ offer_canon' = outcome
                              /\ IF nquads.tag = "Ok"
                                   THEN /\ signer_calls' = Append(signer_calls, payload)
                                        /\ offer_ret' = IF signer_ok THEN Ok(Unit)
                                                        ELSE Err(<<"SignerError">>)
                                   ELSE /\ offer_ret' = IF nquads.tag = "Panic" THEN Panic
                                                        ELSE Err(nquads.err)
                                        /\ UNCHANGED signer_calls
  /\ UNCHANGED <<schema_response, did_response, cred, signed, v_call, key_ret, is_valid,
                 v_ret, v_check, revoked, resolverVars, issuerVars>>

OfferNext == CreateCredentialOffer

VerifyNext ==
  \/ IssueCredential
  \/ TamperData
  \/ VerifyCredential

\* -------------------------------------------------------------------- specs

Init == ResolverInit /\ IssuerInit /\ VerifyIdle

VerifySpecInit == ResolverInit /\ IssuerInit /\ VerifyInit

IssuerSpec == Init /\ [][IssuerNext]_vars

VerifySpec == VerifySpecInit /\ [][VerifyNext]_vars

LookupSpecInit == ResolverInit /\ IssuerInit /\ LookupInit

LookupSpec == LookupSpecInit /\ [][LookupNext]_vars

DefinitionSpec == Init /\ [][DefinitionNext]_vars

OfferSpecInit == ResolverInit /\ IssuerInit /\ OfferSpecIdle /\ OfferInit

OfferSpec == OfferSpecInit /\ [][OfferNext]_vars

\* resolver answers of every kind, for the issuer's DID or for the schema's
DocumentSpecInit ==
  /\ ResolverInit
  /\ IssuerInit
  /\ \/ LookupInit
     \/ OfferSpecIdle /\ OfferInit

DocumentNext ==
  \/ GetIssuerPublicKey
  \/ VerifyCredential
  \/ CreateCredentialOffer

DocumentSpec == DocumentSpecInit /\ [][DocumentNext]_vars

\* the example credential, verified before and after its revocation
RevocationSpecInit ==
  /\ ResolverInit
  /\ IssuerInit
  /\ LookupInit
  /\ Len(did_response.methods) <= 1

RevocationNext ==
  \/ RevokeCredentialIndex
  \/ VerifyCredential

RevocationSpec == RevocationSpecInit /\ [][RevocationNext]_vars

\* the caller of the sequential specification
Caller == 1

\* one caller, one call at a time: every resolver operation
ResolverNext ==
  \/ CheckDid(Caller)
  \/ SetDidDocumentBegin(Caller)
  \/ SetDidDocumentCount(Caller)
  \/ SetDidDocumentWrite(Caller)
  \/ GetDidDocumentBegin(Caller)
  \/ GetDidDocument(Caller)
  \/ HandleMessage(Caller)
  \/ GenerateDid(Caller)
  \/ WhitelistIdentity(Caller)

ResolverSpec == Init /\ [][ResolverNext]_vars

\* several callers, each making one set_did_document call; the calls
\* interleave at their ledger awaits
RaceBegin(p) == pc[p] = "idle" /\ SetDidDocumentBegin(p)

RaceNext ==
  \E p \in Procs :
    \/ RaceBegin(p)
    \/ SetDidDocumentCount(p)
    \/ SetDidDocumentWrite(p)

RaceSpec == Init /\ [][RaceNext]_vars

\* --------------------------------------------------- verification claims

Verified == v_ret.tag # "None"
Looked == key_ret.tag # "None"
TamperedData == cred.data # signed.data

\* C1: a credential whose credentialSubject.data was changed after signing
\* makes verify_credential return an error, and verify_credential never
\* returns Ok(()) unless the signature check answered that the signature
\* is valid.
C1_NoSilentPass ==
  /\ (Verified /\ TamperedData) => v_ret.tag = "Err"
  /\ v_ret.tag = "Ok" => is_valid = "true"

\* C2: a credential signed under (sk, pk) and presented unchanged with the
\* holder's master secret verifies when the verification method resolves
\* to pk and fails when it resolves to another public key.
C2_RoundTrip ==
  ( /\ Verified
    /\ ~TamperedData
    /\ v_call.master_secret = signed.master_secret
    /\ key_ret.tag = "Ok" ) =>
      (v_ret.tag = "Ok" <=> key_ret.val = signed.key)

\* positions of the verification methods with the requested id
Matching == {i \in DOMAIN did_response.methods :
               did_response.methods[i].id = v_call.verification_method_id}
FirstMatching == CHOOSE i \in Matching : \A j \in Matching : i <= j
InvalidVerificationMethod == Err(<<"InvalidVerificationMethod">>)

\* C3 as stated: with no verification method of the requested id,
\* get_issuer_public_key and verify_credential return
\* InvalidVerificationMethod; with one, the key returned is that method's
\* public key field.
C3_KeyLookupAsStated ==
  (Looked /\ did_response.kind = "ok") =>
    /\ Matching = {} =>
         /\ key_ret = InvalidVerificationMethod
         /\ Verified => v_ret = InvalidVerificationMethod
    /\ Matching # {} => \E i \in Matching : key_ret = Ok(did_response.methods[i].x)

\* C3 as amended: with no verification method of the requested id the
\* result is InvalidVerificationMethod; with one, the result is the public
\* key field of the first such method, or InvalidVerificationMethod when
\* that field is the empty string.
C3_KeyLookup ==
  (Looked /\ did_response.kind = "ok") =>
    /\ Matching = {} =>
         /\ key_ret = InvalidVerificationMethod
         /\ Verified => v_ret = InvalidVerificationMethod
    /\ Matching # {} =>
         LET x == did_response.methods[FirstMatching].x
         IN IF x = 0
              THEN /\ key_ret = InvalidVerificationMethod
                   /\ Verified => v_ret = InvalidVerificationMethod
              ELSE key_ret = Ok(x)

\* two methods carry the requested id with different keys, and the key of
\* the first one was returned
C3_Witness ==
  /\ Verified
  /\ Looked
  /\ did_response.kind = "ok"
  /\ Cardinality(Matching) = 2
  /\ did_response.methods[1].x # did_response.methods[2].x
  /\ did_response.methods[2].x # 0
  /\ key_ret = Ok(did_response.methods[1].x)

\* --------------------------------------------------------- issuer claims

SignReturned == issuer_ret.op = "sign_credential_with_revocation"

\* C4: the revocation indices of the credentials signed against one
\* registry are pairwise distinct.
C4_DistinctIndices ==
  \A j, k \in DOMAIN issued : j # k => issued[j] # issued[k]

\* C5: when sign_credential_with_revocation fails, the
\* RevocationRegistryDefinition is as it was before the call.
C5_FailureLeavesRegistry ==
  (SignReturned /\ issuer_ret.tag # "Ok") => rev_def = rev_before

\* state of a revocation index: out of the published accumulator it is
\* revoked; otherwise issued once a credential was signed for it
IndexState(i) ==
  IF i \notin published.accum THEN "Revoked"
  ELSE IF i \in Range(issued) THEN "Issued"
  ELSE "Unissued"

\* C6: an index that is Revoked stays Revoked, and an index that is Issued
\* never becomes Unissued again.
C6_ForwardOnly ==
  [][rev_def.exists =>
       \A i \in 1..rev_def.maximum_credential_count :
         /\ IndexState(i) = "Revoked" => IndexState(i)' = "Revoked"
         /\ IndexState(i) = "Issued" => IndexState(i)' # "Unissued"]_vars

\* C7: every credential gets the next unused index, inside
\* [0, maximum_credential_count); at capacity the operation fails with
\* CryptoOperationFailed and issues nothing, so no more than
\* maximum_credential_count indices are ever issued.
C7_NextIndexWithinCapacity ==
  /\ \A k \in DOMAIN issued : issued[k] = k - 1
  /\ \A k \in DOMAIN issued : issued[k] \in 0..(rev_def.maximum_credential_count - 1)
  /\ Len(issued) <= rev_def.maximum_credential_count

\* ------------------------------------------------------- resolver claims

\* the ledger call sequence a completed set_did_document must have made
ReadCall(p) == LedgerCall("get_payload_count_for_did", call[p].did, 0, 0)
AddCall(p) == LedgerCall("add_payload_to_did", call[p].did, 0, call[p].value)
UpdateCall(p) == LedgerCall("update_payload_in_did", call[p].did, 0, call[p].value)
IsWrite(c) == c.fn \in {"add_payload_to_did", "update_payload_in_did"}
Writes(log) == {i \in DOMAIN log : IsWrite(log[i])}

\* C8: set_did_document reads the payload count once and then makes exactly
\* one ledger write: an append when the count is zero, otherwise an update
\* at index 0; never both, never another index, and no second attempt.
C8_SetOneWrite ==
  \A p \in Procs :
    call[p].op = "set_did_document" =>
      /\ Len(callLog[p]) <= 2
      /\ Cardinality(Writes(callLog[p])) <= 1
      /\ \A i \in Writes(callLog[p]) : callLog[p][i].index = 0
      /\ pc[p] = "set_count" => callLog[p] = <<>>
      /\ pc[p] = "set_write" => callLog[p] = <<ReadCall(p)>>
      /\ pc[p] = "done" =>
            callLog[p] = <<ReadCall(p),
                           IF payload_count[p] = 0 THEN AddCall(p) ELSE UpdateCall(p)>>
      /\ pc[p] = "panicked" =>
            \/ callLog[p] = <<ReadCall(p)>>
            \/ callLog[p] = <<ReadCall(p),
                              IF payload_count[p] = 0 THEN AddCall(p) ELSE UpdateCall(p)>>

\* a set_did_document that took the update path has returned
C8_Witness ==
  \E p \in Procs :
    /\ call[p].op = "set_did_document"
    /\ pc[p] = "done"
    /\ payload_count[p] > 0
    /\ callLog[p][2].fn = "update_payload_in_did"

\* C9: from payload count 0, after any non-empty sequence of successful,
\* non-overlapping set_did_document calls on a DID its payload count is 1,
\* the stored payload is the value of the latest call, and a
\* get_did_document that returns, returns that value.
C9_DidLifecycle ==
  /\ \A d \in DIDs :
        lastSet[d] # 0 =>
          /\ get_payload_count_for_did(d) = 1
          /\ get_did(d) = lastSet[d]
  /\ (pc[Caller] = "done" /\ call[Caller].op = "get_did_document") =>
        ret[Caller] = Ok(lastSet[call[Caller].did])

\* a get_did_document returned the second value written to a DID whose
\* payload count is still 1
C9_Witness ==
  /\ pc[Caller] = "done"
  /\ call[Caller].op = "get_did_document"
  /\ ret[Caller] = Ok(2)
  /\ lastSet[call[Caller].did] = 2
  /\ get_payload_count_for_did(call[Caller].did) = 1

\* C11 (resolver part): no resolver operation ends in a panic; each ends
\* in a returned success value or a returned error.
C11_NoPanic ==
  \A p \in Procs : ret[p].tag # "Panic" /\ pc[p] # "panicked"

\* C12: when the ledger call of a get_did_document or set_did_document
\* fails, the call returns an error result that carries that failure.
C12_LedgerFailureReturned ==
  \A p \in Procs :
    (call[p].op \in {"get_did_document", "set_did_document"} /\ ledger_err[p] # "none") =>
      ret[p] = Err(<<ledger_err[p]>>)

\* the set_did_document calls on d
SettersOf(d) == {p \in Procs : call[p].op = "set_did_document" /\ call[p].did = d}

\* C19: set_did_document calls that interleave at their ledger round trips
\* on a DID whose payload count was 0 leave the DID with payload count 1,
\* and its current payload is the value of one of the calls.
C19_SingleSlot ==
  \A d \in DIDs :
    (Cardinality(SettersOf(d)) >= 2 /\ \A p \in SettersOf(d) : ret[p] = Ok(Unit)) =>
      /\ get_payload_count_for_did(d) = 1
      /\ get_did(d) \in {call[p].value : p \in SettersOf(d)}

CreateDidCall == LedgerCall("create_did", 0, 0, 0)
WhitelistCall == LedgerCall("whitelist_identity", 0, 0, 0)

\* C10: handle_message runs generate_did for "generateDid", whitelist_identity
\* for "whitelistIdentity", and for every other message_type returns an error
\* that carries the message_type, without any ledger call.
C10_CommandTable ==
  \A p \in Procs :
    call[p].op = "handle_message" =>
      LET mt == call[p].mtype
      IN /\ mt = "generateDid" =>
               /\ pc[p] \in {"generate_did", "done", "panicked"}
               /\ callLog[p] = IF pc[p] = "generate_did" THEN <<>> ELSE <<CreateDidCall>>
               /\ pc[p] = "done" => ret[p].tag = "Ok" /\ ret[p].val \in created
         /\ mt = "whitelistIdentity" =>
               /\ pc[p] \in {"whitelist_identity", "done", "panicked"}
               /\ callLog[p] = IF pc[p] = "whitelist_identity" THEN <<>> ELSE <<WhitelistCall>>
               /\ pc[p] = "done" => ret[p].tag = "Ok" /\ whitelisted
         /\ mt \notin {"generateDid", "whitelistIdentity"} =>
               /\ pc[p] = "done"
               /\ ret[p].tag = "Err"
               /\ \E i \in DOMAIN ret[p].err : ret[p].err[i] = mt
               /\ callLog[p] = <<>>

\* a message type that differs from a command name only in case was refused
C10_Witness ==
  \E p \in Procs :
    /\ call[p].op = "handle_message"
    /\ call[p].mtype = "generatedid"
    /\ ret[p] = NotImplemented("generatedid")
    /\ callLog[p] = <<>>

\* ------------------------------------------------------ definition claims

\* C13: the definition create_credential_definition(S, include_master_secret)
\* builds has exactly the property names of S as attributes, plus
\* "master_secret" when include_master_secret is true; no property is
\* dropped and no other attribute is added.
C13_DefinitionAttributes ==
  cd_ret.tag = "Ok" =>
    cd_ret.attrs = cd_call.properties \cup
                     (IF cd_call.include_master_secret THEN {MasterSecretAttr} ELSE {})

C13_Witness ==
  /\ cd_ret.tag = "Ok"
  /\ cd_call.include_master_secret
  /\ Cardinality(cd_call.properties) >= 2
  /\ MasterSecretAttr \notin cd_call.properties
  /\ cd_ret.attrs = cd_call.properties \cup {MasterSecretAttr}

\* ----------------------------------------------------------- offer claims

\* the number of non-empty lines of the canonicalized draft
NonEmptyLineCount(credential) ==
  LET lines == SplitLines(DraftStatements(credential))
  IN Cardinality({i \in DOMAIN lines : lines[i] # <<>>})

\* C14: create_credential_offer hands the signing collaborator the payload
\* {issuer_did, subject_did, number of non-empty n-quad lines of the
\* canonicalized draft}; when schema resolution, draft building or
\* canonicalization fails it returns that error and the signing
\* collaborator is never called.
C14_OfferPayload ==
  offer_ret.tag # "None" =>
    IF offer_canon = "ok"
      THEN signer_calls =
             <<[issuer |-> offer_call.issuer_did,
                subject |-> offer_call.subject_did,
                nquad_count |-> NonEmptyLineCount(offer_draft.credential)]>>
      ELSE /\ offer_ret.tag = "Err"
           /\ offer_ret.err # <<>>
           /\ signer_calls = <<>>

\* C15: the draft's credentialSubject.data has exactly one entry per schema
\* property, mandatory and optional alike, each with the empty string; its
\* key set is fixed by the schema alone.
C15_EveryPropertyEmpty ==
  offer_draft.tag = "Ok" =>
    /\ DOMAIN offer_draft.credential.data = schema_response.properties
    /\ \A name \in schema_response.properties : offer_draft.credential.data[name] = 0

C15_Witness ==
  /\ offer_draft.tag = "Ok"
  /\ schema_response.required # {}
  /\ schema_response.properties \ schema_response.required # {}
  /\ DOMAIN offer_draft.credential.data = schema_response.properties

\* -------------------------------------------------------- document claims

InvalidDidDocument == Err(<<"InvalidDidDocument">>)

\* C16: get_issuer_public_key fails with InvalidDidDocument when the
\* resolved issuer response is malformed or has no didDocument body, and
\* create_empty_unsigned_credential does so for a schema response without
\* didDocument; no key is looked up, no signature is checked and no offer
\* is requested in these cases.
C16_InvalidDidDocument ==
  /\ (Looked /\ did_response.kind \in {"malformed", "no_did_document", "bad_did_document"}) =>
       /\ key_ret = InvalidDidDocument
       /\ is_valid = "none"
       /\ Verified => v_ret = InvalidDidDocument
  /\ (offer_ret.tag # "None" /\ schema_response.kind = "no_did_document") =>
       /\ offer_draft.tag = "Err"
       /\ offer_draft.err = <<"InvalidDidDocument">>
       /\ offer_ret = InvalidDidDocument
       /\ signer_calls = <<>>

C16_Witness ==
  /\ Verified
  /\ did_response.kind = "no_did_document"
  /\ v_ret = InvalidDidDocument
  /\ is_valid = "none"

\* ---------------------------------------------------- verification layout

\* C17: verify_credential checks the signature over n + 1 messages, n the
\* number of n-quads of the credential without its proof: the master-secret
\* message first, then the hash of each n-quad in canonical order; the key
\* generator is made for exactly n + 1 messages.
C17_MessageLayout ==
  (Verified /\ key_ret.tag = "Ok") =>
    LET nquads == convert_to_nquads([cred EXCEPT !.proof.signature = NoSignature])
        n == Len(nquads)
    IN /\ Len(v_check.messages) = n + 1
       /\ v_check.messages[1] = SecretMessage(v_call.master_secret)
       /\ \A i \in 1..n : v_check.messages[i + 1] = HashMessage(nquads[i])
       /\ v_check.message_count = n + 1

C17_Witness ==
  /\ Verified
  /\ key_ret.tag = "Ok"
  /\ Len(v_check.messages) = MaxProps + 2
  /\ v_check.message_count = MaxProps + 2
  /\ is_valid = "true"

\* C18: the result of verify_credential does not depend on the revocation
\* state: a credential whose signature is valid verifies with success
\* whether or not its index was revoked before the call.
C18_RevocationIgnored ==
  /\ (Verified /\ is_valid = "true") => v_ret = Ok(Unit)
  /\ (Verified /\ is_valid # "none") => v_ret = verify_proof_signature(is_valid)

C18_Witness ==
  /\ Verified
  /\ is_valid = "true"
  /\ revoked
  /\ v_check.revoked
  /\ v_ret = Ok(Unit)

====
